---- MODULE Spec2Model ----
(***************************************************************************)
(* A model of backend/kalshi_dashboard.py: the timestamp helper get_ts_ms, *)
(* the statistics function compute_stats and the account/summary part of   *)
(* generate_summary_json.                                                  *)
(*                                                                         *)
(* Python values are modelled as tagged records [k, n, s]:                 *)
(*   None, an int n, a float with the whole value n, a str with text s.    *)
(* SDK objects are records of such values; an attribute an object does not *)
(* have is a field the record does not have (getattr's default applies).   *)
(* Money is kept exact: sums of whole amounts are integers, quotients are  *)
(* fractions in lowest terms.                                              *)
(***************************************************************************)
EXTENDS Integers, Sequences, FiniteSets, TLC

(* ------------------------------ bounds --------------------------------- *)

MaxSettlements == 3

MaxFills == 2

MaxPositions == 2

(* --------------------------- Python values ----------------------------- *)

None == [k |-> "none", n |-> 0, s |-> ""]

IntV(x) == [k |-> "int", n |-> x, s |-> ""]

FloatV(x) == [k |-> "float", n |-> x, s |-> ""]

StrV(t) == [k |-> "str", n |-> 0, s |-> t]

\* getattr(obj, name, default)
getattr(obj, name, default) == IF name \in DOMAIN obj THEN obj[name] ELSE default

\* Python truthiness of a value: None, 0, 0.0 and "" are falsy.
Truthy(value) ==
    CASE value.k = "none" -> FALSE
      [] value.k = "int" -> value.n # 0
      [] value.k = "float" -> value.n # 0
      [] value.k = "str" -> value.s # ""

\* value or default
Or(value, default) == IF Truthy(value) THEN value ELSE default

\* The texts float() accepts, with the number each one spells.
FloatText == ("5" :> 5) @@ ("12" :> 12) @@ ("-3" :> -3) @@ ("40" :> 40) @@ ("0" :> 0)

\* float(value) raises TypeError on None and ValueError on a text that spells
\* no number.
FloatRaises(value) ==
    \/ value.k = "none"
    \/ value.k = "str" /\ value.s \notin DOMAIN FloatText

\* float(value), where it does not raise.
FloatOf(value) == IF value.k = "str" THEN FloatText[value.s] ELSE value.n

\* str.lower() on the action texts.
LowerText == ("BUY" :> "buy") @@ ("Buy" :> "buy") @@ ("SELL" :> "sell") @@ ("Sell" :> "sell")

lower(t) == IF t \in DOMAIN LowerText THEN LowerText[t] ELSE t

\* value.replace("Z", "+00:00") on the timestamp texts.
ReplaceZText ==
    ("1970-01-01T00:00:01Z" :> "1970-01-01T00:00:01+00:00") @@
    ("1970-01-01T00:00:03Z" :> "1970-01-01T00:00:03+00:00")

replaceZ(t) == IF t \in DOMAIN ReplaceZText THEN ReplaceZText[t] ELSE t

\* datetime.fromisoformat(t).timestamp(): the texts it parses, with the epoch
\* second each one names.  Any other text raises ValueError.
IsoText ==
    ("1970-01-01T00:00:01+00:00" :> 1) @@
    ("1970-01-01T00:00:02+00:00" :> 2) @@
    ("1970-01-01T00:00:03+00:00" :> 3)

(* ------------------------------ get_ts_ms ------------------------------ *)

TsAttrs == <<"time", "ts", "created_time", "created_ts", "settled_time">>

\* The spec's variant of the int branch: a value of magnitude at most 10^12 is
\* taken as seconds and scaled to milliseconds.
AbsInt(x) == IF x < 0 THEN -x ELSE x

ExceedsMsBoundary(x) ==
    \/ AbsInt(x) \div 1000000 > 1000000
    \/ AbsInt(x) \div 1000000 = 1000000 /\ AbsInt(x) % 1000000 > 0

TsOfValueScaled(value) ==
    IF value.k = "int"
    THEN IF ExceedsMsBoundary(value.n) THEN value ELSE IntV(value.n * 1000)
    ELSE IF value.k = "str" /\ replaceZ(value.s) \in DOMAIN IsoText
         THEN IntV(IsoText[replaceZ(value.s)] * 1000)
         ELSE None

\* One pass of the loop body of get_ts_ms for a candidate's value: the int
\* returned, or None when the loop goes on to the next candidate.
TsOfValue(value) ==
    IF value.k = "int"
    THEN value
    ELSE IF value.k = "str" /\ replaceZ(value.s) \in DOMAIN IsoText
         THEN IntV(IsoText[replaceZ(value.s)] * 1000)
         ELSE None

RECURSIVE TsFrom(_, _)
TsFrom(obj, j) ==
    IF j > Len(TsAttrs)
    THEN None
    ELSE LET hit == TsOfValue(getattr(obj, TsAttrs[j], None))
         IN  IF hit # None THEN hit ELSE TsFrom(obj, j + 1)

\* A get_ts_ms that defaults an absent timestamp to zero.
get_ts_ms_zero(obj) == IF TsFrom(obj, 1) = None THEN IntV(0) ELSE TsFrom(obj, 1)

get_ts_ms(obj) == TsFrom(obj, 1)

(* ------------------------------ fractions ------------------------------ *)

RECURSIVE GCD(_, _)
GCD(a, b) == IF b = 0 THEN a ELSE GCD(b, a % b)

\* The quotient n / d (d > 0) as a fraction in lowest terms.
Frac(n, d) ==
    LET g == GCD(AbsInt(n), d)
    IN  [num |-> n \div g, den |-> d \div g]

FracOfInt(x) == [num |-> x, den |-> 1]

FracSub(a, b) == Frac(a.num * b.den - b.num * a.den, a.den * b.den)

\* a / b for b > 0
FracDiv(a, b) == Frac(a.num * b.den, a.den * b.num)

(* ---------------------- compute_stats: the fills loop ------------------ *)

\* One pass of the loop over fills (lines 201-211).  acc holds
\* total_invested and total_cash_generated; raised is set when float() or
\* .lower() raises, and the totals then stay as they were.
FillStep(acc, f) ==
    LET size0 == getattr(f, "size", None)
        size == IF size0 = None THEN getattr(f, "count", IntV(0)) ELSE size0
        price0 == Or(getattr(f, "price", FloatV(0)), FloatV(0))
        action0 == Or(getattr(f, "action", StrV("")), StrV(""))
    IN  IF FloatRaises(price0) \/ FloatRaises(size) \/ action0.k # "str"
        THEN [acc EXCEPT !.raised = TRUE]
        ELSE LET cost == FloatOf(size) * FloatOf(price0)
                 action == lower(action0.s)
             IN  IF action = "buy"
                 THEN [acc EXCEPT !.total_invested = @ + cost]
                 ELSE IF action = "sell"
                      THEN [acc EXCEPT !.total_cash_generated = @ + cost]
                      ELSE acc

\* max in place of min
Max(a, b) == IF a > b THEN a ELSE b

\* min(a, b)
Min(a, b) == IF a < b THEN a ELSE b

(* ------------------- compute_stats: the settlements walk --------------- *)

\* A sort key that orders the timestamps downwards.
sort_key_desc(st) == 0 - Or(get_ts_ms(st), IntV(0)).n

\* key=lambda s: get_ts_ms(s) or 0
sort_key(st) == Or(get_ts_ms(st), IntV(0)).n

\* The place sorted() gives st in the sorted list out: behind every element
\* whose key is not greater (the sort is stable).
RECURSIVE InsertAt(_, _, _)
InsertAt(out, st, p) ==
    IF p > Len(out) \/ sort_key(out[p]) > sort_key(st)
    THEN SubSeq(out, 1, p - 1) \o <<st>> \o SubSeq(out, p, Len(out))
    ELSE InsertAt(out, st, p + 1)

RECURSIVE SortFrom(_, _, _)
SortFrom(out, seq, j) ==
    IF j > Len(seq) THEN out ELSE SortFrom(InsertAt(out, seq[j], 1), seq, j + 1)

\* A sorted() that leaves the list in its order.
sorted_asis(seq) == seq

\* sorted(settlements, key=...)
sorted(seq) == SortFrom(<<>>, seq, 1)

\* The walk's step with the series fed from realized_pnl.
SettleStepRealized(acc, st) ==
    LET c0 == getattr(st, "cash_change", None)
        c1 == IF c0 = None THEN getattr(st, "cashChange", None) ELSE c0
    IN  IF c1 = None
        THEN acc
        ELSE IF FloatRaises(c1)
        THEN [acc EXCEPT !.raised = TRUE]
        ELSE LET cash_change == FloatOf(c1)
                 t == get_ts_ms(st)
             IN  [acc EXCEPT
                    !.realized_pnl = @ + cash_change,
                    !.cash_in = IF cash_change > 0 THEN @ + cash_change ELSE @,
                    !.cash_out = IF cash_change < 0 THEN @ + (0 - cash_change) ELSE @,
                    !.ts = t,
                    !.running = IF t # None THEN acc.realized_pnl + cash_change ELSE @,
                    !.cumulative_series =
                        IF t # None
                        THEN Append(@, [ts |-> t.n,
                                        cumulative |-> acc.realized_pnl + cash_change])
                        ELSE @]

\* The walk's step with running advanced before the timestamp is looked at.
SettleStepAlways(acc, st) ==
    LET c0 == getattr(st, "cash_change", None)
        c1 == IF c0 = None THEN getattr(st, "cashChange", None) ELSE c0
    IN  IF c1 = None
        THEN acc
        ELSE IF FloatRaises(c1)
        THEN [acc EXCEPT !.raised = TRUE]
        ELSE LET cash_change == FloatOf(c1)
                 t == get_ts_ms(st)
             IN  [acc EXCEPT
                    !.realized_pnl = @ + cash_change,
                    !.cash_in = IF cash_change > 0 THEN @ + cash_change ELSE @,
                    !.cash_out = IF cash_change < 0 THEN @ + (0 - cash_change) ELSE @,
                    !.ts = t,
                    !.running = @ + cash_change,
                    !.cumulative_series =
                        IF t # None
                        THEN Append(@, [ts |-> t.n, cumulative |-> acc.running + cash_change])
                        ELSE @]

\* One pass of the loop over sorted_settlements (lines 225-240).  acc holds
\* realized_pnl, cash_in, cash_out, running, cumulative_series and ts; raised
\* is set when float(cash_change) raises.
SettleStep(acc, st) ==
    LET c0 == getattr(st, "cash_change", None)
        c1 == IF c0 = None THEN getattr(st, "cashChange", None) ELSE c0
    IN  IF c1 = None
        THEN acc
        ELSE IF FloatRaises(c1)
        THEN [acc EXCEPT !.raised = TRUE]
        ELSE LET cash_change == FloatOf(c1)
                 t == get_ts_ms(st)
             IN  [acc EXCEPT
                    !.realized_pnl = @ + cash_change,
                    !.cash_in = IF cash_change > 0 THEN @ + cash_change ELSE @,
                    !.cash_out = IF cash_change < 0 THEN @ + (0 - cash_change) ELSE @,
                    !.ts = t,
                    !.running = IF t # None THEN @ + cash_change ELSE @,
                    !.cumulative_series =
                        IF t # None
                        THEN Append(@, [ts |-> t.n, cumulative |-> acc.running + cash_change])
                        ELSE @]

\* A return rate that reads zero investment as 100%.
ReturnRateWhole(realized, invested) ==
    IF invested > 0 THEN Frac(realized, invested) ELSE FracOfInt(1)

\* (realized_pnl / total_invested) if total_invested > 0 else 0.0
ReturnRate(realized, invested) ==
    IF invested > 0 THEN Frac(realized, invested) ELSE FracOfInt(0)

(* --------------------- compute_stats as a function --------------------- *)

FillAcc0 == [total_invested |-> 0, total_cash_generated |-> 0, raised |-> FALSE]

SettleAcc0 ==
    [realized_pnl |-> 0, cash_in |-> 0, cash_out |-> 0, running |-> 0,
     cumulative_series |-> <<>>, ts |-> None, raised |-> FALSE]

RECURSIVE FillsFrom(_, _, _)
FillsFrom(acc, fs, j) ==
    IF j > Len(fs) \/ acc.raised THEN acc ELSE FillsFrom(FillStep(acc, fs[j]), fs, j + 1)

RECURSIVE WalkFrom(_, _, _)
WalkFrom(acc, ss, j) ==
    IF j > Len(ss) \/ acc.raised THEN acc ELSE WalkFrom(SettleStep(acc, ss[j]), ss, j + 1)

\* The dict compute_stats returns (lines 214-215 and 242-255).
StatsOf(invested, generated, realized, cin, cout, series) ==
    LET reinv == Min(invested, generated)
        cinv == invested - reinv
    IN  [total_invested |-> invested,
         reinvested |-> reinv,
         cash_invested |-> cinv,
         realized_pnl |-> realized,
         portfolio_value |-> cinv + reinv + realized,
         return_rate |-> ReturnRate(realized, invested),
         cash_in |-> cin,
         cash_out |-> cout,
         cumulative_series |-> series]

\* The outcome of a call that raised.
Raised == [raised |-> TRUE]

\* compute_stats(fills, settlements): the dict returned, or Raised.
compute_stats(fs, ss) ==
    LET fa == FillsFrom(FillAcc0, fs, 1)
    IN  IF fa.raised
        THEN Raised
        ELSE LET sa == WalkFrom(SettleAcc0, sorted(ss), 1)
             IN  IF sa.raised
                 THEN Raised
                 ELSE StatsOf(fa.total_invested, fa.total_cash_generated,
                              sa.realized_pnl, sa.cash_in, sa.cash_out,
                              sa.cumulative_series)

(* ------------------ generate_summary_json: the account ----------------- *)

\* The texts of total_cost_dollars, with int(round(float(text) * 100)).
CentsText == ("0.50" :> 50) @@ ("2.00" :> 200)

\* cents of one event position (lines 301-309); None when neither field is set.
PositionCents(ep) ==
    LET cents == getattr(ep, "total_cost", None)
        dollars_str == getattr(ep, "total_cost_dollars", None)
    IN  IF cents # None
        THEN cents
        ELSE IF dollars_str = None
             THEN None
             ELSE IF dollars_str.k = "str" /\ dollars_str.s \in DOMAIN CentsText
                  THEN IntV(CentsText[dollars_str.s])
                  ELSE IntV(0)

RECURSIVE PositionsFrom(_, _, _)
PositionsFrom(total, eps, j) ==
    IF j > Len(eps)
    THEN total
    ELSE LET cents == PositionCents(eps[j])
         IN  PositionsFrom(IF Truthy(cents) THEN total + cents.n ELSE total, eps, j + 1)

\* positions_cents (lines 290-311): get_positions may raise, and the sum is
\* then left at zero.
PositionsCents(resp) ==
    IF resp.raises THEN 0 ELSE PositionsFrom(0, resp.event_positions, 1)

\* float(TOTAL_DEPOSITS) with its fallbacks (lines 334-338).
TotalDeposits(env) ==
    IF ~Truthy(env) \/ FloatRaises(env) THEN 0 ELSE FloatOf(env)

(* ------------------------------- state --------------------------------- *)

VARIABLES
    balance_resp, positions_resp, fills, settlements, total_deposits_env,
    pc, account, i,
    total_invested, total_cash_generated, reinvested, cash_invested,
    sorted_settlements, realized_pnl, cash_in, cash_out, running,
    cumulative_series, ts, stats, summary

inputs == <<balance_resp, positions_resp, fills, settlements, total_deposits_env>>

fill_vars == <<total_invested, total_cash_generated, reinvested, cash_invested>>

walk_vars ==
    <<sorted_settlements, realized_pnl, cash_in, cash_out, running,
      cumulative_series, ts>>

vars == <<inputs, pc, account, i, fill_vars, walk_vars, stats, summary>>

\* A dict not yet built.
Unset == [unset |-> TRUE]

(* ------------------------------- inputs -------------------------------- *)

SeqsUpTo(S, m) == UNION {[1..j -> S] : j \in 0..m}

ActionValues == {StrV("buy"), StrV("BUY"), StrV("sell"), StrV("Sell"), StrV("hold"), None}

FillDomain ==
    {[action |-> a, count |-> IntV(3), price |-> IntV(2)] : a \in ActionValues}
    \cup
    {[action |-> StrV("buy"), size |-> IntV(2), count |-> IntV(7), price |-> IntV(5)],
     [action |-> StrV("sell"), size |-> None, count |-> IntV(4), price |-> StrV("5")],
     [action |-> StrV("buy"), price |-> IntV(5)],
     [action |-> StrV("Buy"), count |-> IntV(1), price |-> IntV(2)],
     [action |-> StrV("SELL"), count |-> IntV(1), price |-> IntV(2)],
     [action |-> StrV("sell"), count |-> IntV(1), price |-> None],
     [action |-> StrV("buy"), size |-> None, count |-> None, price |-> IntV(5)],
     [action |-> StrV("buy"), count |-> StrV("abc"), price |-> IntV(5)],
     [action |-> StrV("hold"), count |-> IntV(1), price |-> StrV("abc")],
     [action |-> IntV(7), count |-> IntV(1), price |-> IntV(5)]}

SettlementDomain ==
    {[cash_change |-> IntV(-3), ts |-> None],
     [cash_change |-> IntV(-3), ts |-> IntV(1)],
     [cash_change |-> IntV(5), ts |-> None],
     [cash_change |-> IntV(5), ts |-> IntV(1)],
     [cash_change |-> IntV(5), ts |-> IntV(2)],
     [cash_change |-> None, ts |-> IntV(1)],
     [cash_change |-> None, ts |-> None],
     [cash_change |-> StrV("abc"), ts |-> IntV(1)],
     [cash_change |-> None, cashChange |-> IntV(2), time |-> IntV(3), ts |-> IntV(1)],
     [cash_change |-> StrV("12"), ts |-> FloatV(1), created_time |-> StrV("yesterday")],
     [cash_change |-> IntV(5), time |-> StrV("yesterday"),
      created_time |-> StrV("1970-01-01T00:00:01Z"), settled_time |-> IntV(2)]}

BaselineFills ==
    {<<>>,
     <<[action |-> StrV("buy"), count |-> IntV(10), price |-> IntV(40)]>>}

BaselineSettlements ==
    {<<>>,
     <<[cash_change |-> IntV(5), ts |-> IntV(1)]>>,
     <<[cash_change |-> IntV(12), ts |-> None]>>}

BalanceDomain ==
    {[updated_ts |-> IntV(1)],
     [balance |-> None, updated_ts |-> IntV(1)],
     [balance |-> IntV(0), updated_ts |-> IntV(1)],
     [balance |-> IntV(4500), updated_ts |-> IntV(1)],
     [balance |-> IntV(1234), updated_ts |-> None]}

EventPositionDomain ==
    {[total_cost |-> IntV(250), total_cost_dollars |-> StrV("2.00")],
     [total_cost |-> None, total_cost_dollars |-> StrV("0.50")],
     [total_cost |-> None, total_cost_dollars |-> StrV("abc")],
     [total_cost |-> IntV(0), total_cost_dollars |-> None],
     [total_cost |-> None, total_cost_dollars |-> None]}

PositionsDomain ==
    {[raises |-> TRUE, event_positions |-> <<>>]}
    \cup
    {[raises |-> FALSE, event_positions |-> eps] :
        eps \in SeqsUpTo(EventPositionDomain, MaxPositions)}

DepositsDomain ==
    {None, StrV(""), StrV("0"), StrV("40"), StrV("12"), StrV("-3"), StrV("abc")}

\* The inputs with the settlements varied.
LedgerInputs ==
    /\ settlements \in SeqsUpTo(SettlementDomain, MaxSettlements)
    /\ fills = <<[action |-> StrV("buy"), count |-> IntV(10), price |-> IntV(40)]>>
    /\ balance_resp = [balance |-> IntV(4500), updated_ts |-> IntV(1)]
    /\ positions_resp = [raises |-> FALSE, event_positions |-> <<>>]
    /\ total_deposits_env = StrV("40")

\* The inputs with the fills varied.
FillInputs ==
    /\ fills \in SeqsUpTo(FillDomain, MaxFills)
    /\ settlements = <<[cash_change |-> IntV(5), ts |-> IntV(1)]>>
    /\ balance_resp = [balance |-> IntV(4500), updated_ts |-> IntV(1)]
    /\ positions_resp = [raises |-> FALSE, event_positions |-> <<>>]
    /\ total_deposits_env = StrV("40")

\* The inputs with the account and the deposits varied.
AccountInputs ==
    /\ balance_resp \in BalanceDomain
    /\ positions_resp \in PositionsDomain
    /\ total_deposits_env \in DepositsDomain
    /\ fills \in BaselineFills
    /\ settlements \in BaselineSettlements

Init ==
    /\ LedgerInputs \/ FillInputs \/ AccountInputs
    /\ pc = "account"
    /\ account = Unset
    /\ i = 1
    /\ total_invested = 0
    /\ total_cash_generated = 0
    /\ reinvested = 0
    /\ cash_invested = 0
    /\ sorted_settlements = <<>>
    /\ realized_pnl = 0
    /\ cash_in = 0
    /\ cash_out = 0
    /\ running = 0
    /\ cumulative_series = <<>>
    /\ ts = None
    /\ stats = Unset
    /\ summary = Unset

(* ------------------------------- actions ------------------------------- *)

\* generate_summary_json, lines 285-323: the balance, the open positions and
\* the account dict.
ReadAccount ==
    /\ pc = "account"
    /\ LET balance_cents == Or(getattr(balance_resp, "balance", IntV(0)), IntV(0)).n
           positions_cents == PositionsCents(positions_resp)
           portfolio_cents == balance_cents + positions_cents
       IN  account' =
               [cash_cents |-> balance_cents,
                positions_cents |-> positions_cents,
                cash |-> Frac(balance_cents, 100),
                positions_value |-> Frac(positions_cents, 100),
                portfolio_total |-> Frac(portfolio_cents, 100),
                updated_ts |-> getattr(balance_resp, "updated_ts", None)]
    /\ pc' = "fills"
    /\ UNCHANGED <<inputs, i, fill_vars, walk_vars, stats, summary>>

\* compute_stats, lines 201-211: one fill.
FillLoop ==
    /\ pc = "fills"
    /\ i <= Len(fills)
    /\ LET acc == FillStep([total_invested |-> total_invested,
                            total_cash_generated |-> total_cash_generated,
                            raised |-> FALSE], fills[i])
       IN  /\ total_invested' = acc.total_invested
           /\ total_cash_generated' = acc.total_cash_generated
           /\ pc' = IF acc.raised THEN "raised" ELSE "fills"
           /\ i' = IF acc.raised THEN i ELSE i + 1
    /\ UNCHANGED <<inputs, account, reinvested, cash_invested, walk_vars, stats, summary>>

\* compute_stats, lines 214-224: the split of the invested money and the sort.
AfterFills ==
    /\ pc = "fills"
    /\ i > Len(fills)
    /\ reinvested' = Min(total_invested, total_cash_generated)
    /\ cash_invested' = total_invested - Min(total_invested, total_cash_generated)
    /\ sorted_settlements' = sorted(settlements)
    /\ i' = 1
    /\ pc' = "walk"
    /\ UNCHANGED <<inputs, account, total_invested, total_cash_generated,
                   realized_pnl, cash_in, cash_out, running, cumulative_series, ts,
                   stats, summary>>

\* compute_stats, lines 225-240: one settlement.
SettleLoop ==
    /\ pc = "walk"
    /\ i <= Len(sorted_settlements)
    /\ LET acc == SettleStep([realized_pnl |-> realized_pnl,
                              cash_in |-> cash_in,
                              cash_out |-> cash_out,
                              running |-> running,
                              cumulative_series |-> cumulative_series,
                              ts |-> ts,
                              raised |-> FALSE], sorted_settlements[i])
       IN  /\ realized_pnl' = acc.realized_pnl
           /\ cash_in' = acc.cash_in
           /\ cash_out' = acc.cash_out
           /\ running' = acc.running
           /\ cumulative_series' = acc.cumulative_series
           /\ ts' = acc.ts
           /\ pc' = IF acc.raised THEN "raised" ELSE "walk"
           /\ i' = IF acc.raised THEN i ELSE i + 1
    /\ UNCHANGED <<inputs, account, fill_vars, sorted_settlements, stats, summary>>

\* compute_stats, lines 242-255: the dict returned.
FinishStats ==
    /\ pc = "walk"
    /\ i > Len(sorted_settlements)
    /\ stats' = StatsOf(total_invested, total_cash_generated, realized_pnl,
                        cash_in, cash_out, cumulative_series)
    /\ pc' = "deposits"
    /\ UNCHANGED <<inputs, account, i, fill_vars, walk_vars, summary>>

\* generate_summary_json, lines 334-360: the deposits, the net profit and the
\* summary.
Summarize ==
    /\ pc = "deposits"
    /\ LET total_deposits == TotalDeposits(total_deposits_env)
           net_profit == FracSub(account.portfolio_total, FracOfInt(total_deposits))
           net_profit_percent ==
               IF total_deposits > 0
               THEN FracDiv(net_profit, FracOfInt(total_deposits))
               ELSE FracOfInt(0)
           stats_extra ==
               stats @@ [total_deposits |-> total_deposits,
                         net_profit |-> net_profit,
                         net_profit_percent |-> net_profit_percent]
       IN  summary' = [account |-> account, summary |-> stats_extra]
    /\ pc' = "done"
    /\ UNCHANGED <<inputs, account, i, fill_vars, walk_vars, stats>>

Next ==
    \/ ReadAccount
    \/ FillLoop
    \/ AfterFills
    \/ SettleLoop
    \/ FinishStats
    \/ Summarize

Spec == Init /\ [][Next]_vars

\* The dict the stepwise run returns is the one compute_stats gives.
StepwiseAgrees ==
    /\ pc \in {"deposits", "done"} => stats = compute_stats(fills, settlements)
    /\ pc = "raised" => compute_stats(fills, settlements) = Raised

(* ------------------- what the properties speak about ------------------- *)

\* The cash_change of a settlement, under either field name.
CashValue(st) ==
    IF getattr(st, "cash_change", None) # None
    THEN getattr(st, "cash_change", None)
    ELSE getattr(st, "cashChange", None)

\* The settlement has a cash_change that is a number.
HasCash(st) == CashValue(st) # None /\ ~FloatRaises(CashValue(st))

\* The settlement has a timestamp under some candidate field name: an int, or
\* a text in ISO-8601.
Timestamped(st) ==
    \E j \in 1..Len(TsAttrs) :
        LET value == getattr(st, TsAttrs[j], None)
        IN  \/ value.k = "int"
            \/ value.k = "str" /\ value.s \in DOMAIN ReplaceZText \cup DOMAIN IsoText

HasCashAndTs(st) == HasCash(st) /\ Timestamped(st)

HasCashNoTs(st) == HasCash(st) /\ ~Timestamped(st)

RECURSIVE SumCash(_)
SumCash(seq) ==
    IF seq = <<>> THEN 0 ELSE FloatOf(CashValue(Head(seq))) + SumCash(Tail(seq))

Credit(st) == HasCash(st) /\ FloatOf(CashValue(st)) > 0

Debit(st) == HasCash(st) /\ FloatOf(CashValue(st)) < 0

NonDecreasing(series) ==
    \A j \in 1..(Len(series) - 1) : series[j].ts <= series[j + 1].ts

Returned == pc \in {"deposits", "done"}

\* In the walk, the settlement just processed got a point on the series.
JustAppended ==
    /\ pc = "walk"
    /\ i > 1
    /\ HasCashAndTs(sorted_settlements[i - 1])

Walked == SubSeq(sorted_settlements, 1, i - 1)

\* The candidate fields of a settlement that are set, in the order they are tried.
PresentTs(st) ==
    SelectSeq([j \in 1..Len(TsAttrs) |-> getattr(st, TsAttrs[j], None)],
              LAMBDA value : value # None)

\* The first candidate field that is set.
FirstPresentAttr(st) ==
    TsAttrs[CHOOSE j \in 1..Len(TsAttrs) :
                /\ getattr(st, TsAttrs[j], None) # None
                /\ \A h \in 1..(j - 1) : getattr(st, TsAttrs[h], None) = None]

PermsOf(m) == {p \in [1..m -> 1..m] : \A a, b \in 1..m : a # b => p[a] # p[b]}

Permute(seq, p) == [j \in 1..Len(seq) |-> seq[p[j]]]

Scalars(r) ==
    <<r.total_invested, r.reinvested, r.cash_invested, r.realized_pnl,
      r.portfolio_value, r.return_rate, r.cash_in, r.cash_out>>

SeriesTs(r) == [j \in 1..Len(r.cumulative_series) |-> r.cumulative_series[j].ts]

\* No two settlements that get a point on the series share a timestamp.
DistinctTs(ss) ==
    \A a, b \in 1..Len(ss) :
        (a # b /\ HasCashAndTs(ss[a]) /\ HasCashAndTs(ss[b]))
            => get_ts_ms(ss[a]) # get_ts_ms(ss[b])

ActionText(f) == getattr(f, "action", None).s

IsBuy(f) == ActionText(f) \in {"buy", "Buy", "BUY"}

IsSell(f) == ActionText(f) \in {"sell", "Sell", "SELL"}

Notional(f) ==
    LET size == IF getattr(f, "size", None) # None
                THEN f.size
                ELSE getattr(f, "count", IntV(0))
        price == getattr(f, "price", None)
    IN  FloatOf(size) * (IF price = None THEN 0 ELSE FloatOf(price))

RECURSIVE SumNotional(_)
SumNotional(seq) ==
    IF seq = <<>> THEN 0 ELSE Notional(Head(seq)) + SumNotional(Tail(seq))

(* ------------------------------ properties ----------------------------- *)

\* C1: the cumulative series is non-decreasing in its timestamps, during the
\* walk and in the dict returned, whatever the order of the settlements and
\* whichever of them lack a timestamp or a cash_change.
C1_SeriesNonDecreasing ==
    /\ NonDecreasing(cumulative_series)
    /\ Returned => NonDecreasing(stats.cumulative_series)

\* C1 witness: a returned series of two points from settlements given in
\* falling timestamp order, with a settlement lacking a timestamp and one
\* lacking a cash_change among them.
C1_Witness ==
    /\ pc = "done"
    /\ Len(stats.cumulative_series) >= 2
    /\ stats.cumulative_series[1].ts < stats.cumulative_series[2].ts
    /\ \E a, b \in 1..Len(settlements) :
          /\ a < b
          /\ HasCashAndTs(settlements[a]) /\ HasCashAndTs(settlements[b])
          /\ get_ts_ms(settlements[a]).n > get_ts_ms(settlements[b]).n
    /\ \E a \in 1..Len(settlements) : ~Timestamped(settlements[a])
    /\ \E a \in 1..Len(settlements) : CashValue(settlements[a]) = None

\* C2 as claimed: the value appended to the series for a timestamped settlement
\* is realized_pnl at that point of the walk.
C2_SeriesIsRealizedPnl ==
    JustAppended =>
        cumulative_series[Len(cumulative_series)].cumulative = realized_pnl

\* C2 as amended: the value appended for a timestamped settlement is the sum of
\* cash_change over the timestamped settlements walked so far; a settlement
\* with a cash_change and no timestamp walked earlier counts toward
\* realized_pnl and not toward the values of the series.
C2_SeriesIsTimestampedSum ==
    JustAppended =>
        /\ cumulative_series[Len(cumulative_series)].cumulative
               = SumCash(SelectSeq(Walked, HasCashAndTs))
        /\ realized_pnl - cumulative_series[Len(cumulative_series)].cumulative
               = SumCash(SelectSeq(Walked, HasCashNoTs))

\* C2 witness: a point was just appended after a settlement with a cash_change
\* and no timestamp was walked, and it differs from realized_pnl.
C2_Witness ==
    /\ JustAppended
    /\ \E j \in 1..(i - 2) : HasCashNoTs(sorted_settlements[j])
    /\ cumulative_series[Len(cumulative_series)].cumulative # realized_pnl

\* C3: when some settlement has both a cash_change and a timestamp, the last
\* entry of the returned series holds the sum of cash_change over exactly the
\* settlements that have both.
C3_LastIsTimestampedSum ==
    (Returned /\ \E j \in 1..Len(settlements) : HasCashAndTs(settlements[j])) =>
        /\ stats.cumulative_series # <<>>
        /\ stats.cumulative_series[Len(stats.cumulative_series)].cumulative
               = SumCash(SelectSeq(settlements, HasCashAndTs))

\* C3 witness: a returned series whose last value leaves out the cash_change
\* of a settlement without a timestamp.
C3_Witness ==
    /\ pc = "done"
    /\ Len(stats.cumulative_series) >= 2
    /\ \E j \in 1..Len(settlements) : HasCashNoTs(settlements[j])
    /\ stats.cumulative_series[Len(stats.cumulative_series)].cumulative
           # stats.realized_pnl

\* C4 as claimed: a numeric timestamp of magnitude above 10^12 is returned as
\* it is, and any other numeric timestamp is returned multiplied by 1000.
C4_NumericScaled ==
    (pc = "walk" /\ i > 1 /\ HasCash(sorted_settlements[i - 1])) =>
        LET present == PresentTs(sorted_settlements[i - 1])
        IN  (present # <<>> /\ present[1].k \in {"int", "float"}) =>
                ts = IF ExceedsMsBoundary(present[1].n)
                     THEN IntV(present[1].n)
                     ELSE IntV(present[1].n * 1000)

\* C4 as amended: get_ts_ms returns an int timestamp as it is, whatever its
\* magnitude, with no scaling from seconds; a float is not taken as a
\* timestamp and the next candidate field is tried.  The walk's ts is that
\* value.
C4_IntUnchanged ==
    /\ \A j \in 1..Len(settlements) :
          LET present == PresentTs(settlements[j])
          IN  /\ (present # <<>> /\ present[1].k = "int") =>
                     get_ts_ms(settlements[j]) = IntV(present[1].n)
              /\ (present # <<>> /\ present[1].k = "float") =>
                     get_ts_ms(settlements[j])
                         = get_ts_ms([settlements[j] EXCEPT
                                         ![FirstPresentAttr(settlements[j])] = None])
    /\ (pc = "walk" /\ i > 1 /\ HasCash(sorted_settlements[i - 1])) =>
          LET present == PresentTs(sorted_settlements[i - 1])
          IN  (present # <<>> /\ present[1].k = "int") => ts = IntV(present[1].n)

\* C4 witness: the walk took an int timestamp below the boundary, other than
\* zero, as it is.
C4_Witness ==
    /\ pc = "walk"
    /\ i > 1
    /\ HasCash(sorted_settlements[i - 1])
    /\ PresentTs(sorted_settlements[i - 1]) # <<>>
    /\ PresentTs(sorted_settlements[i - 1])[1].k = "int"
    /\ PresentTs(sorted_settlements[i - 1])[1].n # 0
    /\ ~ExceedsMsBoundary(PresentTs(sorted_settlements[i - 1])[1].n)
    /\ ts = PresentTs(sorted_settlements[i - 1])[1]
    /\ cumulative_series[Len(cumulative_series)].ts = ts.n

\* C5 as claimed: compute_stats never raises on a money field that holds no
\* number.
C5_NeverRaises == pc # "raised"

\* C6 as claimed: the summary has an unrealized_pnl field, which is 0 when the
\* open position value is at most 1e-6 and net_profit - realized_pnl otherwise.
C6_UnrealizedPnl ==
    pc = "done" =>
        /\ "unrealized_pnl" \in DOMAIN summary.summary
        /\ summary.summary.unrealized_pnl
               = IF account.positions_cents <= 0
                 THEN FracOfInt(0)
                 ELSE FracSub(summary.summary.net_profit,
                              FracOfInt(summary.summary.realized_pnl))

\* C7 as claimed: the result compute_stats returns, series included, is the one
\* it returns for every permutation of the fills and of the settlements.
C7_PermutationSame ==
    pc = "deposits" =>
        \A pf \in PermsOf(Len(fills)), ps \in PermsOf(Len(settlements)) :
            compute_stats(Permute(fills, pf), Permute(settlements, ps)) = stats

\* C7 as amended: for every permutation of the fills and of the settlements
\* compute_stats returns the same scalar totals and a series with the same
\* timestamps in the same order; the whole series is the same when no two
\* settlements that have a cash_change and a timestamp share a timestamp.
\* A call that raises raises for every permutation.
C7_PermutationSameUpToTies ==
    /\ pc = "deposits" =>
          \A pf \in PermsOf(Len(fills)), ps \in PermsOf(Len(settlements)) :
              LET r == compute_stats(Permute(fills, pf), Permute(settlements, ps))
              IN  /\ r # Raised
                  /\ Scalars(r) = Scalars(stats)
                  /\ SeriesTs(r) = SeriesTs(stats)
                  /\ DistinctTs(settlements) => r = stats
    /\ pc = "raised" =>
          \A pf \in PermsOf(Len(fills)), ps \in PermsOf(Len(settlements)) :
              compute_stats(Permute(fills, pf), Permute(settlements, ps)) = Raised

\* C7 witness: a result from settlements with distinct timestamps given in
\* falling order, one settlement lacking a timestamp.
C7_Witness ==
    /\ pc = "done"
    /\ DistinctTs(settlements)
    /\ Len(stats.cumulative_series) >= 2
    /\ \E a, b \in 1..Len(settlements) :
          /\ a < b
          /\ HasCashAndTs(settlements[a]) /\ HasCashAndTs(settlements[b])
          /\ get_ts_ms(settlements[a]).n > get_ts_ms(settlements[b]).n
    /\ \E a \in 1..Len(settlements) : HasCashNoTs(settlements[a])

\* C8: a settlement with a cash_change and no timestamp counts toward
\* realized_pnl, cash_in and cash_out like any other and gets no entry in the
\* series: the series has one entry per settlement with both.
C8_UntimestampedCounts ==
    Returned =>
        /\ stats.realized_pnl = SumCash(SelectSeq(settlements, HasCash))
        /\ stats.cash_in = SumCash(SelectSeq(settlements, Credit))
        /\ stats.cash_out = 0 - SumCash(SelectSeq(settlements, Debit))
        /\ Len(stats.cumulative_series)
               = Cardinality({j \in 1..Len(settlements) : HasCashAndTs(settlements[j])})

\* C8 witness: two settlements with the same positive cash_change, one of them
\* without a timestamp; both are in cash_in and one is in the series.
C8_Witness ==
    /\ pc = "done"
    /\ \E a, b \in 1..Len(settlements) :
          /\ HasCashNoTs(settlements[a])
          /\ HasCashAndTs(settlements[b])
          /\ FloatOf(CashValue(settlements[a])) = FloatOf(CashValue(settlements[b]))
          /\ FloatOf(CashValue(settlements[a])) > 0
          /\ stats.cash_in = 2 * FloatOf(CashValue(settlements[a]))
    /\ Len(stats.cumulative_series) = 1

\* C9: reinvested is at most total_invested and at most the sum of the sell
\* notionals, cash_invested = total_invested - reinvested is not negative, and
\* the two sums hold the fills whose action is buy or sell in any case of the
\* letters and no other fill.
C9_ReinvestedBounded ==
    /\ pc \in {"walk", "deposits", "done"} =>
          /\ total_invested = SumNotional(SelectSeq(fills, IsBuy))
          /\ total_cash_generated = SumNotional(SelectSeq(fills, IsSell))
          /\ reinvested <= total_invested
          /\ reinvested <= total_cash_generated
          /\ cash_invested = total_invested - reinvested
          /\ cash_invested >= 0
    /\ Returned =>
          /\ stats.total_invested = SumNotional(SelectSeq(fills, IsBuy))
          /\ stats.reinvested <= stats.total_invested
          /\ stats.reinvested <= SumNotional(SelectSeq(fills, IsSell))
          /\ stats.cash_invested = stats.total_invested - stats.reinvested
          /\ stats.cash_invested >= 0

\* C9 witness: a result from a buy written in capitals and a fill of another
\* action, with money invested.
C9_Witness ==
    /\ pc = "done"
    /\ \E a \in 1..Len(fills) : ActionText(fills[a]) = "BUY"
    /\ \E a \in 1..Len(fills) : ActionText(fills[a]) = "hold"
    /\ stats.total_invested > 0
    /\ stats.cash_invested = stats.total_invested

\* C10 as claimed: return_rate is 0 when total_invested is 0 and realized_pnl /
\* total_invested otherwise; net_profit_percent is 0 when total_deposits is 0
\* and net_profit / total_deposits otherwise.
C10_ZeroDenominators ==
    pc = "done" =>
        LET s == summary.summary
        IN  /\ s.total_invested = 0 => s.return_rate = FracOfInt(0)
            /\ s.total_invested # 0 =>
                   s.return_rate.num * s.total_invested
                       = s.realized_pnl * s.return_rate.den
            /\ s.total_deposits = 0 => s.net_profit_percent = FracOfInt(0)
            /\ s.total_deposits # 0 =>
                   s.net_profit_percent.num * s.net_profit.den * s.total_deposits
                       = s.net_profit.num * s.net_profit_percent.den

\* C10 as amended: return_rate is 0 when total_invested is 0 and realized_pnl /
\* total_invested otherwise; net_profit_percent is 0 when total_deposits is 0
\* or negative, and net_profit / total_deposits when it is positive.
C10_NoPositiveDenominatorIsZero ==
    pc = "done" =>
        LET s == summary.summary
        IN  /\ s.total_invested = 0 => s.return_rate = FracOfInt(0)
            /\ s.total_invested # 0 =>
                   s.return_rate.num * s.total_invested
                       = s.realized_pnl * s.return_rate.den
            /\ s.total_deposits <= 0 => s.net_profit_percent = FracOfInt(0)
            /\ s.total_deposits > 0 =>
                   s.net_profit_percent.num * s.net_profit.den * s.total_deposits
                       = s.net_profit.num * s.net_profit_percent.den

\* C10 witness: a summary with nothing invested, a realized_pnl of 12 and no
\* deposits.
C10_Witness ==
    /\ pc = "done"
    /\ summary.summary.total_invested = 0
    /\ summary.summary.realized_pnl = 12
    /\ summary.summary.return_rate = FracOfInt(0)
    /\ summary.summary.total_deposits = 0
    /\ summary.summary.net_profit.num # 0
    /\ summary.summary.net_profit_percent = FracOfInt(0)

====
